---- MODULE Spec2Model ----
(***************************************************************************)
(* Model of algorithmic_trading: Helper.get_paginated_request (the         *)
(* paginated fetch engine) and DataManager.get_historical_ohlc (the bulk   *)
(* OHLC collector that drives it once per ticker).                         *)
(*                                                                         *)
(* The provider is a finite cursor chain: page p of a symbol carries       *)
(* nrows rows and a next_url to page p+1 unless it is the last page.       *)
(* Every HTTP request is answered by a response the environment picks:     *)
(* an exception of the transport, a non-200 status, a 200 body with        *)
(* status == "ERROR" (a soft error), or the page itself.                   *)
(***************************************************************************)
EXTENDS Integers, Sequences, FiniteSets, TLC

\* ---------------------------------------------------------------- bounds
MaxPages == 3      \* pages of a cursor chain
MaxRows == 2       \* rows on a page
MaxTickers == 3    \* symbols in one get_historical_ohlc call
MaxWall == 1       \* wall-clock readings of a date argument: 0..MaxWall

\* ------------------------------------------------------ program constants
Cooldown == 70
HTTP_OK == 200

VARIABLES
    \* the provider (environment)
    npages,        \* N: length of the cursor chain of every request
    nrows,         \* P: rows on each page
    hasCount,      \* whether the endpoint's bodies carry resultsCount
    \* the frame of Helper.get_paginated_request
    fpc,           \* position in get_paginated_request
    safe,          \* argument safe
    session,       \* argument / local session (NoSession = None)
    request_url,   \* local request_url: <<symbol, page>>
    request_json,  \* local request_json
    results_df,    \* local results_df: the rows accumulated so far
    ferr,          \* the exception get_paginated_request raised, if any
    \* observable effects
    reqlog,        \* every HTTP request issued, in order
    warnings,      \* every warnings.warn issued, in order
    nsessions,     \* requests.Session objects created so far
    clock,         \* time spent in time.sleep
    \* the frame of DataManager.get_historical_ohlc
    opc,           \* position in get_historical_ohlc
    arg_start,     \* argument start_date as passed
    arg_end,       \* argument end_date as passed
    start_date,    \* local start_date after Helper.set_date
    end_date,      \* local end_date after Helper.set_date
    tickers,       \* argument tickers, a list of symbols
    timeframe,     \* argument timeframe
    multiplier,    \* argument multiplier
    tidx,          \* index of the loop `for ticker in tickers`
    data_df,       \* local data_df
    oerr,          \* the exception get_historical_ohlc raised, if any
    \* the frame of DataManager.get_historical_tickers
    tpc,           \* position in get_historical_tickers
    arg_types,     \* argument ticker_types as passed
    ticker_types,  \* local ticker_types after Helper.set_str_list
    include_delisted, \* argument include_delisted
    arg_date,      \* argument date as passed
    kidx,          \* index of the loop `for ticker_type in ticker_types`
    tk_df,         \* local results_df of get_historical_tickers
    fetched,       \* the get_paginated_request calls that returned, in order
    terr,          \* the exception get_historical_tickers raised, if any
    \* the frame of DataManager.post_historical_ohlc and the filesystem
    ppc,           \* position in post_historical_ohlc
    post_df,       \* argument data_df
    post_tf,       \* argument timeframe
    post_mult,     \* argument multiplier
    timestamps,    \* local timestamps still to be written
    perr,          \* the exception post_historical_ohlc raised, if any
    root_exists,   \* whether ohlc_path exists
    folders,       \* the sub-directories of ohlc_path
    files,         \* the partition files: <<folder, date>> -> rows
    ncalls,        \* calls of post_historical_ohlc begun so far
    before,        \* the previous call and the filesystem it left
    \* the frame of Helper.get_time_delta
    dpc,           \* position in get_time_delta
    arg_timestamps,   \* argument timestamps as passed
    stamps,        \* local timestamps after Helper.set_str_list
    sidx,          \* index of the loop `for timestamp in timestamps`
    prev_timestamp,   \* local prev_timestamp
    time_deltas,   \* local time_deltas, in insertion order
    most_common_delta, \* the value returned
    derr           \* the exception get_time_delta raised, if any

fvars == <<fpc, safe, session, request_url, request_json, results_df, ferr>>
pvars == <<npages, nrows, hasCount>>
evars == <<reqlog, warnings, nsessions, clock>>
ovars == <<opc, arg_start, arg_end, start_date, end_date, tickers, timeframe,
           multiplier, tidx, data_df, oerr>>
tvars == <<tpc, arg_types, ticker_types, include_delisted, arg_date, kidx,
           tk_df, fetched, terr>>
svars == <<ppc, post_df, post_tf, post_mult, timestamps, perr, root_exists,
           folders, files, ncalls, before>>
dvars == <<dpc, arg_timestamps, stamps, sidx, prev_timestamp, time_deltas,
           most_common_delta, derr>>
vars == <<pvars, fvars, evars, ovars, tvars, svars, dvars>>

\* ------------------------------------------------------------- the provider
NoSession == 0     \* session = None
Bare == 0          \* a request made with requests.get, through no session

NoErr == "none"

DirectSym == <<"X">>

\* A date as Python holds it: a wall-clock reading and, when the value is
\* timezone-aware, its UTC offset. The instant it denotes is wall - off.
NoDate == [wall |-> -1, aware |-> FALSE, off |-> 0]

NullTicker == <<>>

\* data_manager.py:35, 41  what a request of the tickers endpoint names: the
\* type, the date parameter and the active flag of its query string
TickersUrlListedOnly(ticker_type, date, active) == <<"tickers", ticker_type, date, "true">>

TickersUrl(ticker_type, date, active) == <<"tickers", ticker_type, date, active>>

IsCatalog(s) == Len(s) = 4 /\ s[1] = "tickers"

\* Row i of page p of the chain served for symbol s. An aggregates row
\* carries the bar and its epoch t in milliseconds; the provider leaves out
\* ticker and, unless it is true, otc.
\* A row of the tickers endpoint carries the type and the active flag the
\* request filtered on.
Row(s, p, i) ==
    IF IsCatalog(s)
      THEN [id |-> <<s, p, i>>, ticker |-> <<s[2], s[4], p, i>>,
            type |-> s[2], active |-> s[4]]
    ELSE
    [id |-> <<s, p, i>>, ticker |-> NullTicker,
     otc |-> IF i = 2 THEN "true" ELSE "null",
     t |-> 1000 * ((p - 1) * nrows + i), timestamp |-> NoDate]

PageRows(s, p) == [i \in 1..nrows |-> Row(s, p, i)]

\* The JSON body of page p: {status, results, resultsCount?, next_url?}.
PageBody(s, p) ==
    [status |-> "OK", hasResults |-> TRUE, results |-> PageRows(s, p),
     hasCount |-> hasCount, resultsCount |-> nrows,
     hasNext |-> p < npages, next_url |-> <<s, p + 1>>]

\* A body with status == "ERROR"; it may or may not carry a results field,
\* and carries the cursor only when it carries results.
ErrorBody(s, p, withResults) ==
    [status |-> "ERROR", hasResults |-> withResults, results |-> <<>>,
     hasCount |-> FALSE, resultsCount |-> 0,
     hasNext |-> withResults /\ p < npages, next_url |-> <<s, p + 1>>]

NoJson ==
    [status |-> "", hasResults |-> FALSE, results |-> <<>>,
     hasCount |-> FALSE, resultsCount |-> 0,
     hasNext |-> FALSE, next_url |-> <<DirectSym, 0>>]

\* The symbols whose requests the provider always answers with the page.
\* Requests for every other symbol can be answered in any way.
Reliable ==
    {<<"A">>, <<"C">>}
    \cup { <<"tickers", ty, d, a>> : ty \in {"CS", "ETF"},
                                     d \in {"", "date=2025-05-02&"},
                                     a \in {"true", "false"} }
    \cup { <<"tickers", "WARRANT", d, "true">> : d \in {"", "date=2025-05-02&"} }

\* What a GET of url can produce.
Responses(url) ==
    LET s == url[1]
        p == url[2]
    IN  IF s \in Reliable
          THEN { [exc |-> FALSE, status_code |-> HTTP_OK, isJson |-> TRUE, body |-> PageBody(s, p)] }
        ELSE
        { [exc |-> TRUE, status_code |-> 0, isJson |-> FALSE, body |-> NoJson],
          [exc |-> FALSE, status_code |-> 404, isJson |-> FALSE, body |-> NoJson],
          [exc |-> FALSE, status_code |-> 404, isJson |-> TRUE,
           body |-> ErrorBody(s, p, FALSE)],
          [exc |-> FALSE, status_code |-> HTTP_OK, isJson |-> TRUE, body |-> PageBody(s, p)] }
        \cup
        { [exc |-> FALSE, status_code |-> HTTP_OK, isJson |-> TRUE,
           body |-> ErrorBody(s, p, w)] : w \in BOOLEAN }

\* How a response is classed in the request log: an exception of the
\* transport, a non-200 status (with a body that is not JSON, or with a JSON
\* error body), a 200 body with status == "ERROR", or the page.
Class(r) ==
    IF r.exc THEN "exc"
    ELSE IF r.status_code # HTTP_OK THEN (IF r.isJson THEN "http_json" ELSE "http")
    ELSE IF r.body.status = "ERROR" THEN "soft"
    ELSE "ok"

\* --------------------------------------- Helper.get_paginated_request

HttpFailedNever(r) == FALSE

\* helper.py:42  request_response.status_code != 200
HttpFailed(r) == r.status_code # HTTP_OK

IsSoftErrorAlways(json) == TRUE

\* helper.py:49, 61  request_json['status'] == 'ERROR'
IsSoftError(json) == json.status = "ERROR"

\* helper.py:53  'resultsCount' in request_json and request_json['resultsCount'] == 0
NoResults(json) == json.hasCount /\ json.resultsCount = 0

HasNextUrlNever(json) == FALSE

\* helper.py:58  'next_url' in request_json
HasNextUrl(json) == json.hasNext

\* helper.py:59  request_url = f'{request_json['next_url']}&apiKey=...'
NextUrl(json) == json.next_url

VStackReversed(df, page_df) == page_df \o df

VStackTwice(df, page_df) == df \o page_df \o page_df

\* helper.py:65  results_df.vstack(page_df, in_place=True)
VStack(df, page_df) == df \o page_df

\* helper.py:47, 55  pl.DataFrame(schema=df_schema)
EmptyTable == <<>>

\* helper.py:34-39  a private session is created when the caller gives none
SessionFor(sess) == IF sess = NoSession THEN nsessions + 1 ELSE sess

LogEntry(url, via, r) == [url |-> url, via |-> via, class |-> Class(r)]

\* helper.py:34-49  the first request and the checks on its response
FirstGet ==
    /\ fpc = "start"
    /\ \E r \in Responses(request_url) :
        LET sid == SessionFor(session) IN
        /\ session' = sid
        /\ nsessions' = IF session = NoSession THEN nsessions + 1 ELSE nsessions
        /\ reqlog' = Append(reqlog, LogEntry(request_url, sid, r))
        /\ IF r.exc
             THEN /\ fpc' = "raised" /\ ferr' = "ConnectionError"
                  /\ UNCHANGED <<request_json, results_df, warnings>>
           ELSE IF HttpFailed(r)
             THEN IF safe
                    THEN /\ fpc' = "raised" /\ ferr' = "ValueError"
                         /\ UNCHANGED <<request_json, results_df, warnings>>
                    ELSE /\ fpc' = "returned"
                         /\ warnings' = Append(warnings, <<"http request failed", request_url>>)
                         /\ results_df' = EmptyTable
                         /\ UNCHANGED <<request_json, ferr>>
           ELSE IF ~r.isJson
             THEN /\ fpc' = "raised" /\ ferr' = "JSONDecodeError"
                  /\ UNCHANGED <<request_json, results_df, warnings>>
           ELSE /\ request_json' = r.body
                /\ fpc' = IF IsSoftError(r.body) THEN "cooldown_first" ELSE "first_body"
                /\ UNCHANGED <<results_df, warnings, ferr>>
    /\ UNCHANGED <<safe, request_url, clock, pvars, dvars, tvars, svars, ovars>>

\* helper.py:50-52 and 62-63  time.sleep(70), then requests.get of the same
\* url and .json() of whatever comes back; the status code is not looked at.
Retry(after) ==
    /\ clock' = clock + Cooldown
    /\ \E r \in Responses(request_url) :
        /\ reqlog' = Append(reqlog, LogEntry(request_url, Bare, r))
        /\ IF r.exc
             THEN /\ fpc' = "raised" /\ ferr' = "ConnectionError"
                  /\ UNCHANGED request_json
           ELSE IF ~r.isJson
             THEN /\ fpc' = "raised" /\ ferr' = "JSONDecodeError"
                  /\ UNCHANGED request_json
           ELSE /\ request_json' = r.body
                /\ fpc' = after
                /\ UNCHANGED ferr
    /\ UNCHANGED <<safe, session, request_url, results_df, warnings, nsessions,
                   pvars, dvars, tvars, svars, ovars>>

\* helper.py:49-52
FirstRetry ==
    /\ fpc = "cooldown_first"
    /\ Retry("first_body")

\* helper.py:53-56  the resultsCount check and the first page's table
FirstPage ==
    /\ fpc = "first_body"
    /\ IF NoResults(request_json)
         THEN /\ fpc' = "returned"
              /\ warnings' = Append(warnings, <<"No results found", request_url>>)
              /\ results_df' = EmptyTable
              /\ UNCHANGED ferr
       ELSE IF ~request_json.hasResults
         THEN /\ fpc' = "raised" /\ ferr' = "KeyError"
              /\ UNCHANGED <<results_df, warnings>>
       ELSE /\ results_df' = request_json.results
            /\ fpc' = "loop"
            /\ UNCHANGED <<warnings, ferr>>
    /\ UNCHANGED <<safe, session, request_url, request_json, reqlog, nsessions,
                   clock, pvars, dvars, tvars, svars, ovars>>

\* helper.py:58-61  the request of a continuation page, through the session
NextGet ==
    /\ fpc = "loop"
    /\ HasNextUrl(request_json)
    /\ LET url == NextUrl(request_json) IN
       /\ request_url' = url
       /\ \E r \in Responses(url) :
           /\ reqlog' = Append(reqlog, LogEntry(url, session, r))
           /\ IF r.exc
                THEN /\ fpc' = "raised" /\ ferr' = "ConnectionError"
                     /\ UNCHANGED request_json
              ELSE IF ~r.isJson
                THEN /\ fpc' = "raised" /\ ferr' = "JSONDecodeError"
                     /\ UNCHANGED request_json
              ELSE /\ request_json' = r.body
                   /\ fpc' = IF IsSoftError(r.body) THEN "cooldown_next" ELSE "page_body"
                   /\ UNCHANGED ferr
    /\ UNCHANGED <<safe, session, results_df, warnings, nsessions, clock,
                   pvars, dvars, tvars, svars, ovars>>

\* helper.py:61-63
NextRetry ==
    /\ fpc = "cooldown_next"
    /\ Retry("page_body")

\* helper.py:64-65  the page's table, appended to results_df
AppendPage ==
    /\ fpc = "page_body"
    /\ IF ~request_json.hasResults
         THEN /\ fpc' = "raised" /\ ferr' = "KeyError"
              /\ UNCHANGED results_df
         ELSE /\ results_df' = VStack(results_df, request_json.results)
              /\ fpc' = "loop"
              /\ UNCHANGED ferr
    /\ UNCHANGED <<safe, session, request_url, request_json, reqlog, warnings,
                   nsessions, clock, pvars, dvars, tvars, svars, ovars>>

\* helper.py:58, 66  no next_url: return results_df
ReturnTable ==
    /\ fpc = "loop"
    /\ ~HasNextUrl(request_json)
    /\ fpc' = "returned"
    /\ UNCHANGED <<safe, session, request_url, request_json, results_df, ferr,
                   evars, pvars, dvars, tvars, svars, ovars>>

Fetch ==
    \/ FirstGet
    \/ FirstRetry
    \/ FirstPage
    \/ NextGet
    \/ NextRetry
    \/ AppendPage
    \/ ReturnTable

\* A provider the program can meet: a page that has a successor is not empty.
Providers ==
    { pr \in [n : 1..MaxPages, p : 0..MaxRows, c : BOOLEAN] : pr.p = 0 => pr.n = 1 }

TickersIdle ==
    /\ tpc = "none"
    /\ arg_types = [kind |-> "list", val |-> <<>>]
    /\ ticker_types = <<>>
    /\ include_delisted = [isBool |-> TRUE, val |-> FALSE]
    /\ arg_date = "empty"
    /\ kidx = 0 /\ tk_df = <<>> /\ fetched = <<>> /\ terr = NoErr

NoCall == [table |-> <<>>, tf |-> "", mult |-> [isInt |-> TRUE, val |-> 0],
           outcome |-> "none", root |-> FALSE, folders |-> {}, files |-> <<>>]

\* helper.py:134  most_common_delta = None
NoDelta == <<>>

DeltaIdle ==
    /\ dpc = "none"
    /\ arg_timestamps = [kind |-> "list", val |-> <<>>]
    /\ stamps = <<>> /\ sidx = 0 /\ prev_timestamp = 0
    /\ time_deltas = <<>> /\ most_common_delta = NoDelta /\ derr = NoErr

PostIdle ==
    /\ ppc = "none"
    /\ post_df = <<>> /\ post_tf = "" /\ post_mult = [isInt |-> TRUE, val |-> 0]
    /\ timestamps = {} /\ perr = NoErr
    /\ root_exists = FALSE /\ folders = {} /\ files = <<>>
    /\ ncalls = 0 /\ before = NoCall

OhlcIdle ==
    /\ opc = "none"
    /\ arg_start = NoDate /\ arg_end = NoDate /\ start_date = 0 /\ end_date = 0
    /\ tickers = <<>> /\ timeframe = "" /\ multiplier = [isInt |-> TRUE, val |-> 0]
    /\ tidx = 0 /\ data_df = <<>> /\ oerr = NoErr

\* A direct call get_paginated_request(request_url, df_schema, safe, session).
Init ==
    /\ \E pr \in Providers :
        /\ npages = pr.n /\ nrows = pr.p /\ hasCount = pr.c
    /\ fpc = "start"
    /\ safe \in BOOLEAN
    /\ session \in {NoSession, 1}
    /\ nsessions = session
    /\ request_url = <<DirectSym, 1>>
    /\ request_json = NoJson
    /\ results_df = <<>>
    /\ ferr = NoErr
    /\ reqlog = <<>>
    /\ warnings = <<>>
    /\ clock = 0
    /\ OhlcIdle
    /\ TickersIdle
    /\ PostIdle
    /\ DeltaIdle

Next == Fetch

Spec == Init /\ [][Next]_vars

\* --------------------------------------------- what the request log shows

Range(f) == { f[k] : k \in DOMAIN f }

Occurrences(seq, x) == Cardinality({ k \in DOMAIN seq : seq[k] = x })

\* Rows 1..P of page 1, then of page 2, ... then of page n.
AllRows(s, n) ==
    [k \in 1..(n * nrows) |-> Row(s, ((k - 1) \div nrows) + 1, ((k - 1) % nrows) + 1)]

\* The provider never signalled an error.
NoFault == \A k \in DOMAIN reqlog : reqlog[k].class = "ok"

\* The only errors were soft errors, each followed by a successful retry.
SoftErrorsRecovered ==
    \A k \in DOMAIN reqlog :
        /\ reqlog[k].class \in {"ok", "soft"}
        /\ reqlog[k].via = Bare => reqlog[k].class = "ok"

IsRetry(k) == reqlog[k].via = Bare

\* Entry k is a response whose body get_paginated_request read and found
\* with status == "ERROR": a 200 soft error, or, on a continuation page,
\* whose status code is not looked at, a JSON error body of any status.
ReadAsError(k) ==
    \/ reqlog[k].class = "soft"
    \/ reqlog[k].class = "http_json" /\ reqlog[k].url[2] > 1

\* C1: N pages of P rows each, chained by next_url, no error: the call
\* returns exactly N*P rows, the rows of page 1, then page 2, ... page N,
\* each page in the provider's order.
C1_PaginationComplete ==
    (fpc = "returned" /\ NoFault) =>
        /\ Len(results_df) = npages * nrows
        /\ results_df = AllRows(DirectSym, npages)

C1_Witness ==
    /\ fpc = "returned" /\ NoFault
    /\ npages >= 2 /\ nrows >= 2
    /\ Len(results_df) = npages * nrows

\* C2 as stated: N pages (of at least one row), chained by next_url, no
\* error: exactly N+1 HTTP requests are issued.
C2_Original_NPlusOneRequests ==
    (fpc = "returned" /\ NoFault /\ nrows >= 1) => Len(reqlog) = npages + 1

\* C2 amended: N pages, chained by next_url, no error: exactly N HTTP
\* requests are issued, one per page, in cursor order.
C2_ExactlyNRequests ==
    (fpc = "returned" /\ NoFault) =>
        /\ Len(reqlog) = npages
        /\ \A k \in DOMAIN reqlog : reqlog[k].url = <<DirectSym, k>>

C2_Witness ==
    /\ fpc = "returned" /\ NoFault
    /\ npages >= 2
    /\ Len(reqlog) = npages

\* C3: with a stable cursor and soft errors that are each followed by a
\* successful retry, every row of every page appears exactly once in the
\* returned table, and nothing else does.
C3_ExactlyOnce ==
    (fpc = "returned" /\ SoftErrorsRecovered) =>
        /\ \A p \in 1..npages : \A i \in 1..nrows :
              Occurrences(results_df, Row(DirectSym, p, i)) = 1
        /\ Len(results_df) = npages * nrows

C3_Witness ==
    /\ fpc = "returned" /\ SoftErrorsRecovered
    /\ npages >= 2 /\ nrows >= 1
    /\ \E k \in DOMAIN reqlog : reqlog[k].class = "soft" /\ reqlog[k].url[2] = 1
    /\ \E k \in DOMAIN reqlog : reqlog[k].class = "soft" /\ reqlog[k].url[2] > 1
    /\ Len(results_df) = npages * nrows

FirstResponseNot200 ==
    Len(reqlog) >= 1 /\ reqlog[1].class \in {"http", "http_json"}

\* C4: the first response has a status other than 200: with safe=True the
\* call raises and returns no table; with safe=False it warns, issues no
\* further request and returns an empty table.
C4_FirstResponseNot200 ==
    FirstResponseNot200 =>
        /\ Len(reqlog) = 1
        /\ safe => (fpc = "raised" /\ ferr = "ValueError" /\ warnings = <<>>)
        /\ ~safe => /\ fpc = "returned"
                    /\ results_df = <<>>
                    /\ warnings = << <<"http request failed", <<DirectSym, 1>> >> >>

C4_Witness ==
    /\ FirstResponseNot200
    /\ ~safe
    /\ fpc = "returned"
    /\ Len(warnings) = 1

FirstPageDeclaresNoResults ==
    /\ fpc \in {"returned", "raised"}
    /\ request_url[2] = 1
    /\ request_json.hasCount /\ request_json.resultsCount = 0

\* C5 as stated: the first page's body declares resultsCount == 0: with
\* safe=True the call fails with a no-results error; with safe=False it
\* warns and returns an empty table.
C5_NoResultsStrictFails ==
    FirstPageDeclaresNoResults =>
        /\ safe => fpc = "raised"
        /\ ~safe => (fpc = "returned" /\ results_df = <<>> /\ Len(warnings) = 1)

\* C6: a body with status == "ERROR" causes the cooldown sleep and exactly
\* one retry of the same url, on the first page and on every continuation
\* page; no url is requested more than twice, so a chain of N pages costs
\* at most 2N requests even when every response is a soft error.
C6_RetryOnceBounded ==
    /\ \A k \in DOMAIN reqlog :
          IsRetry(k) => /\ k > 1
                        /\ ~IsRetry(k - 1)
                        /\ ReadAsError(k - 1)
                        /\ reqlog[k - 1].url = reqlog[k].url
    /\ \A k \in DOMAIN reqlog :
          (ReadAsError(k) /\ ~IsRetry(k)) =>
              IF k = Len(reqlog)
                THEN fpc \in {"cooldown_first", "cooldown_next"}
                ELSE IsRetry(k + 1) /\ reqlog[k + 1].url = reqlog[k].url
    /\ \A k \in DOMAIN reqlog :
          Cardinality({ j \in DOMAIN reqlog : reqlog[j].url = reqlog[k].url }) <= 2
    /\ Len(reqlog) <= 2 * npages
    /\ clock = Cooldown * Cardinality({ k \in DOMAIN reqlog : IsRetry(k) })

C6_Witness ==
    /\ fpc = "returned"
    /\ npages >= 2
    /\ Len(reqlog) = 2 * npages
    /\ \A k \in DOMAIN reqlog : reqlog[k].class = "soft"

\* ---------------------------------------------------- Helper.set_date

UTC == 0

\* helper.py:95-98  the timezone step of set_date. The first test already
\* holds for every date whose tzinfo differs from tz, so the tzinfo is
\* replaced and the wall-clock reading kept; the astimezone branch is never
\* taken.
AsTimezone(date, tz) == [wall |-> date.wall - date.off + tz, aware |-> TRUE, off |-> tz]

Localize(date, tz) ==
    IF ~date.aware \/ date.off # tz
      THEN [wall |-> date.wall, aware |-> TRUE, off |-> tz]
    ELSE IF date.off # tz
      THEN AsTimezone(date, tz)
    ELSE date

\* helper.py:104-105  int(date.timestamp() * 1000)
TimestampMs(date) == (date.wall - date.off) * 1000

\* helper.py:69-107  set_date(date, 'timestamp', tz)
SetDateTimestamp(date, tz) == TimestampMs(Localize(date, tz))

\* ------------------------------------- DataManager.get_historical_ohlc

valid_timeframes_no_quarter == {"hour", "day", "minute", "week", "month", "year", "second"}

\* data_manager.py:59
valid_timeframes == {"hour", "day", "minute", "week", "month", "quarter", "year", "second"}

\* data_manager.py:60
TimeframeInvalid(tf) == tf \notin valid_timeframes

MultiplierInvalidNever(m) == FALSE

\* data_manager.py:62  not isinstance(multiplier, int) or multiplier < 1
MultiplierInvalid(m) == ~m.isInt \/ m.val < 1

\* data_manager.py:82  end_date < start_date
DatesInverted(s, e) == e < s

HasSlashNever(ticker) == FALSE

\* data_manager.py:98  "/" in ticker
HasSlash(ticker) == \E k \in 1..Len(ticker) : ticker[k] = "/"

\* data_manager.py:108-113  t cast to a UTC datetime and formatted
IsoFromMs(t) == [wall |-> t \div 1000, aware |-> TRUE, off |-> UTC]

FillRowKeepNull(row, ticker) ==
    [row EXCEPT !.otc = IF @ = "null" THEN "false" ELSE @,
                !.timestamp = IsoFromMs(row.t)]

\* data_manager.py:106-113  the defaults filled into a fetched row
FillRow(row, ticker) ==
    [row EXCEPT !.otc = IF @ = "null" THEN "false" ELSE @,
                !.ticker = IF @ = NullTicker THEN ticker ELSE @,
                !.timestamp = IsoFromMs(row.t)]

FillTable(df, ticker) == [k \in 1..Len(df) |-> FillRow(df[k], ticker)]

\* data_manager.py:80-96  the date conversion and comparison, the validator
OhlcValidate ==
    /\ opc = "start"
    /\ LET s == SetDateTimestamp(arg_start, UTC)
           e == SetDateTimestamp(arg_end, UTC)
       IN  /\ start_date' = s
           /\ end_date' = e
           /\ IF DatesInverted(s, e)
                THEN /\ opc' = "raised" /\ oerr' = "ValueError: date order"
              ELSE IF TimeframeInvalid(timeframe)
                THEN /\ opc' = "raised" /\ oerr' = "ValueError: timeframe"
              ELSE IF MultiplierInvalid(multiplier)
                THEN /\ opc' = "raised" /\ oerr' = "ValueError: multiplier"
              ELSE /\ opc' = "loop" /\ UNCHANGED oerr
    /\ tidx' = 1
    /\ data_df' = EmptyTable
    /\ UNCHANGED <<arg_start, arg_end, tickers, timeframe, multiplier,
                   pvars, dvars, tvars, svars, fvars, evars>>

\* data_manager.py:97-100  a ticker with a slash is skipped with a warning
OhlcSkip ==
    /\ opc = "loop"
    /\ tidx <= Len(tickers)
    /\ HasSlash(tickers[tidx])
    /\ warnings' = Append(warnings, <<"contains a slash", tickers[tidx]>>)
    /\ tidx' = tidx + 1
    /\ UNCHANGED <<opc, arg_start, arg_end, start_date, end_date, tickers,
                   timeframe, multiplier, data_df, oerr, reqlog, nsessions,
                   clock, pvars, dvars, tvars, svars, fvars>>

\* data_manager.py:101-102  get_paginated_request(request_url, df_schema, safe=False)
OhlcCall ==
    /\ opc = "loop"
    /\ tidx <= Len(tickers)
    /\ ~HasSlash(tickers[tidx])
    /\ opc' = "fetching"
    /\ fpc' = "start"
    /\ safe' = FALSE
    /\ session' = NoSession
    /\ request_url' = <<tickers[tidx], 1>>
    /\ request_json' = NoJson
    /\ results_df' = EmptyTable
    /\ ferr' = NoErr
    /\ UNCHANGED <<arg_start, arg_end, start_date, end_date, tickers, timeframe,
                   multiplier, tidx, data_df, oerr, pvars, dvars, tvars, svars, evars>>

\* data_manager.py:103-115  the fetched table is checked, filled and appended
OhlcAfterFetch ==
    /\ opc = "fetching"
    /\ fpc = "returned"
    /\ IF Len(results_df) = 0
         THEN /\ warnings' = Append(warnings, <<"No data found for ticker", tickers[tidx]>>)
              /\ UNCHANGED data_df
         ELSE /\ data_df' = VStack(data_df, FillTable(results_df, tickers[tidx]))
              /\ UNCHANGED warnings
    /\ tidx' = tidx + 1
    /\ opc' = "loop"
    /\ fpc' = "idle"
    /\ UNCHANGED <<arg_start, arg_end, start_date, end_date, tickers, timeframe,
                   multiplier, oerr, safe, session, request_url, request_json,
                   results_df, ferr, reqlog, nsessions, clock, pvars, dvars, tvars, svars>>

\* data_manager.py:102  nothing catches what get_paginated_request raises
OhlcPropagate ==
    /\ opc = "fetching"
    /\ fpc = "raised"
    /\ opc' = "raised"
    /\ oerr' = ferr
    /\ fpc' = "idle"
    /\ UNCHANGED <<arg_start, arg_end, start_date, end_date, tickers, timeframe,
                   multiplier, tidx, data_df, safe, session, request_url,
                   request_json, results_df, ferr, pvars, dvars, tvars, svars, evars>>

\* data_manager.py:116-119  after the loop
OhlcReturn ==
    /\ opc = "loop"
    /\ tidx > Len(tickers)
    /\ opc' = "returned"
    /\ warnings' = IF Len(data_df) = 0
                     THEN Append(warnings, <<"No data found", <<>> >>)
                     ELSE warnings
    /\ UNCHANGED <<arg_start, arg_end, start_date, end_date, tickers, timeframe,
                   multiplier, tidx, data_df, oerr, reqlog, nsessions, clock,
                   pvars, dvars, tvars, svars, fvars>>

\* ------------------------------------------ the calls of get_historical_ohlc

SymA == <<"A">>
SymC == <<"C">>
SymG == <<"G">>
SymSlash == <<"B", "/", "B">>

Symbols == {SymA, SymC, SymG, SymSlash}

\* Lists of distinct symbols, at most MaxTickers long.
TickerLists ==
    UNION { { l \in [1..n -> Symbols] : \A i, j \in 1..n : i # j => l[i] # l[j] }
            : n \in 0..MaxTickers }

Offsets == {0, 1}

DateArgs ==
    { [wall |-> w, aware |-> FALSE, off |-> 0] : w \in 0..MaxWall }
    \cup { [wall |-> w, aware |-> TRUE, off |-> o] : w \in 0..MaxWall, o \in Offsets }

TimeframeArgs ==
    {"second", "minute", "hour", "day", "week", "month", "quarter", "year",
     "invalid-timeframe"}

MultiplierArgs ==
    { [isInt |-> TRUE, val |-> v] : v \in {-1, 0, 1, 5} }
    \cup { [isInt |-> FALSE, val |-> 1] }

\* The calls explored: every combination of the arguments for one symbol,
\* and every list of symbols for the arguments ('day', 1) and a date range
\* in order.
OhlcCalls ==
    [start : DateArgs, end : DateArgs, timeframe : TimeframeArgs,
     multiplier : MultiplierArgs, tickers : {<<SymA>>}]
    \cup
    [start : {[wall |-> 0, aware |-> TRUE, off |-> UTC]},
     end : {[wall |-> 1, aware |-> TRUE, off |-> UTC]},
     timeframe : {"day"}, multiplier : {[isInt |-> TRUE, val |-> 1]},
     tickers : TickerLists]

InitOhlc ==
    /\ \E pr \in Providers :
        /\ npages = pr.n /\ nrows = pr.p /\ hasCount = pr.c
    /\ \E c \in OhlcCalls :
        /\ arg_start = c.start /\ arg_end = c.end
        /\ timeframe = c.timeframe /\ multiplier = c.multiplier
        /\ tickers = c.tickers
    /\ opc = "start"
    /\ start_date = 0 /\ end_date = 0
    /\ tidx = 0 /\ data_df = <<>> /\ oerr = NoErr
    /\ fpc = "idle" /\ safe = FALSE /\ session = NoSession
    /\ request_url = <<DirectSym, 0>>
    /\ request_json = NoJson /\ results_df = <<>> /\ ferr = NoErr
    /\ reqlog = <<>> /\ warnings = <<>> /\ nsessions = 0 /\ clock = 0
    /\ TickersIdle
    /\ PostIdle
    /\ DeltaIdle

NextOhlc ==
    \/ OhlcValidate
    \/ OhlcSkip
    \/ OhlcCall
    \/ OhlcAfterFetch
    \/ OhlcPropagate
    \/ OhlcReturn
    \/ FirstGet
    \/ FirstRetry
    \/ FirstPage
    \/ NextGet
    \/ NextRetry
    \/ AppendPage
    \/ ReturnTable

SpecOhlc == InitOhlc /\ [][NextOhlc]_vars

\* ------------------------------------------- claims on get_historical_ohlc

\* The instant a date argument denotes.
Instant(date) == date.wall - date.off

\* Python orders two naive datetimes, and two aware ones; never a mix.
Comparable(a, b) == a.aware = b.aware

Validated == opc \notin {"none", "start"}

Requested(sym) == \E k \in DOMAIN reqlog : reqlog[k].url[1] = sym

\* C7 as stated: start_date > end_date: the call fails before any HTTP
\* request; start_date <= end_date: it never fails on the date order.
C7_DateOrder ==
    (Validated /\ Comparable(arg_start, arg_end)) =>
        IF Instant(arg_start) > Instant(arg_end)
          THEN opc = "raised" /\ reqlog = <<>>
          ELSE oerr # "ValueError: date order"

\* C8: timeframe outside {second, minute, hour, day, week, month, quarter,
\* year}, or multiplier not an integer >= 1: the call fails having issued
\* no HTTP request; a valid pair never fails the validator.
C8_ValidatorBeforeRequests ==
    Validated =>
        IF \/ timeframe \notin {"second", "minute", "hour", "day", "week",
                                "month", "quarter", "year"}
           \/ ~(multiplier.isInt /\ multiplier.val >= 1)
          THEN opc = "raised" /\ reqlog = <<>>
          ELSE oerr \notin {"ValueError: timeframe", "ValueError: multiplier"}

C8_Witness ==
    /\ opc = "raised"
    /\ oerr = "ValueError: timeframe"
    /\ multiplier.val >= 1
    /\ reqlog = <<>>

ContainsSlash(sym) == "/" \in Range(sym)

\* C9: a symbol containing '/' is skipped with a warning and no request is
\* ever issued for it; the symbols before and after it are still fetched.
C9_SlashSkipped ==
    /\ \A k \in DOMAIN reqlog : ~ContainsSlash(reqlog[k].url[1])
    /\ \A i \in DOMAIN tickers :
          (opc \in {"loop", "fetching", "returned"} /\ i < tidx) =>
              IF ContainsSlash(tickers[i])
                THEN <<"contains a slash", tickers[i]>> \in Range(warnings)
                ELSE Requested(tickers[i])
    /\ opc = "raised" /\ reqlog # <<>> => ~ContainsSlash(tickers[tidx])
    /\ opc = "returned" => tidx = Len(tickers) + 1

C9_Witness ==
    /\ opc = "returned"
    /\ Len(tickers) = 3
    /\ ContainsSlash(tickers[2])
    /\ Requested(tickers[1]) /\ Requested(tickers[3])
    /\ <<"contains a slash", tickers[2]>> \in Range(warnings)

\* C10 as stated, for the soft errors it names: in a multi-symbol call
\* whose provider has rows for every symbol and answers 200 throughout, no
\* soft error of one symbol aborts the call: once requests are being issued
\* the call does not raise, and it returns with every symbol fetched.
C10_NoProviderFailureAborts ==
    (/\ Len(tickers) >= 2
     /\ nrows >= 1
     /\ \A k \in DOMAIN reqlog : reqlog[k].class \in {"ok", "soft"}) =>
        /\ opc = "raised" => reqlog = <<>>
        /\ opc = "returned" =>
              \A i \in DOMAIN tickers :
                  ~ContainsSlash(tickers[i]) => Requested(tickers[i])

\* -------------------------------- DataManager.get_historical_tickers

\* helper.py:154-163  set_str_list raises TypeError unless lst is a string,
\* a list or a string array
StrListInvalid(lst) == lst.kind \notin {"str", "list"}

\* helper.py:158-161  a string becomes an array of one, a list an array
SetStrList(lst) == IF lst.kind = "str" THEN <<lst.val>> ELSE lst.val

\* data_manager.py:26  date != ''
DateGiven(date) == date # "empty"

\* helper.py:85-93  set_date(date, 'isoformat'): fromisoformat raises
\* ValueError on a string that is no ISO date, and a date of another type
\* raises TypeError
SetDateError(date) ==
    IF date = "bad" THEN "ValueError: date"
    ELSE IF date = "none" THEN "TypeError: date"
    ELSE NoErr

\* data_manager.py:27-28  f"date={date}&"
DateParam(date) == IF DateGiven(date) THEN "date=2025-05-02&" ELSE ""

NotBoolNever(x) == FALSE

\* data_manager.py:29  not isinstance(include_delisted, bool)
NotBool(x) == ~x.isBool

SkipDelistedNever(x) == FALSE

\* data_manager.py:39  not include_delisted
SkipDelisted(x) == ~x.val

\* data_manager.py:25-32  the argument checks before the loop
TkValidate ==
    /\ tpc = "start"
    /\ IF StrListInvalid(arg_types)
         THEN /\ tpc' = "raised" /\ terr' = "TypeError: lst"
              /\ UNCHANGED <<ticker_types, kidx>>
       ELSE IF DateGiven(arg_date) /\ SetDateError(arg_date) # NoErr
         THEN /\ tpc' = "raised" /\ terr' = SetDateError(arg_date)
              /\ ticker_types' = SetStrList(arg_types)
              /\ UNCHANGED kidx
       ELSE IF NotBool(include_delisted)
         THEN /\ tpc' = "raised" /\ terr' = "TypeError: include_delisted"
              /\ ticker_types' = SetStrList(arg_types)
              /\ UNCHANGED kidx
       ELSE /\ ticker_types' = SetStrList(arg_types)
            /\ kidx' = 1
            /\ tpc' = "loop"
            /\ UNCHANGED terr
    /\ UNCHANGED <<arg_types, include_delisted, arg_date, tk_df, fetched>>
    /\ UNCHANGED <<pvars, dvars, fvars, evars, ovars, svars>>

\* data_manager.py:34-37  the request for the listed tickers of the next type
TkCallListed ==
    /\ tpc = "loop"
    /\ kidx <= Len(ticker_types)
    /\ tpc' = "listed"
    /\ fpc' = "start"
    /\ safe' = TRUE
    /\ session' = NoSession
    /\ request_url' = <<TickersUrl(ticker_types[kidx], DateParam(arg_date), "true"), 1>>
    /\ request_json' = NoJson
    /\ results_df' = EmptyTable
    /\ ferr' = NoErr
    /\ UNCHANGED <<arg_types, ticker_types, include_delisted, arg_date, kidx,
                   tk_df, fetched, terr>>
    /\ UNCHANGED <<pvars, dvars, evars, ovars, svars>>

\* data_manager.py:38-42  listed_df is appended; unless include_delisted is
\* false the delisted tickers of the type are requested
TkAfterListed ==
    /\ tpc = "listed"
    /\ fpc = "returned"
    /\ tk_df' = VStack(tk_df, results_df)
    /\ fetched' = Append(fetched, [url |-> request_url[1], df |-> results_df])
    /\ IF SkipDelisted(include_delisted)
         THEN /\ kidx' = kidx + 1
              /\ tpc' = "loop"
              /\ fpc' = "idle"
              /\ UNCHANGED <<safe, session, request_url, request_json, results_df, ferr>>
         ELSE /\ tpc' = "unlisted"
              /\ fpc' = "start"
              /\ safe' = TRUE
              /\ session' = NoSession
              /\ request_url' = <<TickersUrl(ticker_types[kidx], DateParam(arg_date), "false"), 1>>
              /\ request_json' = NoJson
              /\ results_df' = EmptyTable
              /\ ferr' = NoErr
              /\ UNCHANGED kidx
    /\ UNCHANGED <<arg_types, ticker_types, include_delisted, arg_date, terr>>
    /\ UNCHANGED <<pvars, dvars, evars, ovars, svars>>

\* data_manager.py:43  unlisted_df is appended
TkAfterUnlisted ==
    /\ tpc = "unlisted"
    /\ fpc = "returned"
    /\ tk_df' = VStack(tk_df, results_df)
    /\ fetched' = Append(fetched, [url |-> request_url[1], df |-> results_df])
    /\ kidx' = kidx + 1
    /\ tpc' = "loop"
    /\ fpc' = "idle"
    /\ UNCHANGED <<arg_types, ticker_types, include_delisted, arg_date, terr>>
    /\ UNCHANGED <<safe, session, request_url, request_json, results_df, ferr>>
    /\ UNCHANGED <<pvars, dvars, evars, ovars, svars>>

\* data_manager.py:37, 42  an exception of get_paginated_request is not caught
TkPropagate ==
    /\ tpc \in {"listed", "unlisted"}
    /\ fpc = "raised"
    /\ tpc' = "raised"
    /\ terr' = ferr
    /\ fpc' = "idle"
    /\ UNCHANGED <<arg_types, ticker_types, include_delisted, arg_date, kidx,
                   tk_df, fetched>>
    /\ UNCHANGED <<safe, session, request_url, request_json, results_df, ferr>>
    /\ UNCHANGED <<pvars, dvars, evars, ovars, svars>>

\* data_manager.py:44  return results_df
TkReturn ==
    /\ tpc = "loop"
    /\ kidx > Len(ticker_types)
    /\ tpc' = "returned"
    /\ UNCHANGED <<arg_types, ticker_types, include_delisted, arg_date, kidx,
                   tk_df, fetched, terr>>
    /\ UNCHANGED <<pvars, dvars, fvars, evars, ovars, svars>>

\* ---------------------------------- the calls of get_historical_tickers

MaxTypes == 2      \* ticker types of one call

TypeNames == {"CS", "ETF", "WARRANT"}

TypeLists ==
    UNION { { l \in [1..n -> TypeNames] : \A i, j \in 1..n : l[i] = l[j] => i = j }
            : n \in 0..MaxTypes }

\* ticker_types: left out (None), a number, one type as a string, a list
TypeArgs ==
    { [kind |-> "none", val |-> <<>>], [kind |-> "int", val |-> <<>>],
      [kind |-> "str", val |-> "CS"], [kind |-> "list", val |-> <<"WARRANT">>] }

\* include_delisted: True, False, 'yes', None
DelistedArgs ==
    { [isBool |-> TRUE, val |-> TRUE], [isBool |-> TRUE, val |-> FALSE],
      [isBool |-> FALSE, val |-> TRUE], [isBool |-> FALSE, val |-> FALSE] }

\* date: '', '2025-05-02', 'invalid-date', None
TkDateArgs == {"empty", "iso", "bad", "none"}

\* every choice of arguments for a few ticker_types, and every list of
\* types with valid arguments
TkCalls ==
    { [types |-> t, delisted |-> d, date |-> a] :
          t \in TypeArgs, d \in DelistedArgs, a \in TkDateArgs }
    \cup { [types |-> [kind |-> "list", val |-> l], delisted |-> [isBool |-> TRUE, val |-> b],
            date |-> a] : l \in TypeLists, b \in BOOLEAN, a \in {"empty", "iso"} }

InitTickers ==
    /\ \E pr \in Providers :
        /\ npages = pr.n /\ nrows = pr.p /\ hasCount = pr.c
    /\ \E c \in TkCalls :
        /\ arg_types = c.types
        /\ include_delisted = c.delisted
        /\ arg_date = c.date
    /\ tpc = "start"
    /\ ticker_types = <<>> /\ kidx = 0 /\ tk_df = <<>> /\ fetched = <<>>
    /\ terr = NoErr
    /\ fpc = "idle" /\ safe = TRUE /\ session = NoSession
    /\ request_url = <<DirectSym, 0>>
    /\ request_json = NoJson /\ results_df = <<>> /\ ferr = NoErr
    /\ reqlog = <<>> /\ warnings = <<>> /\ nsessions = 0 /\ clock = 0
    /\ OhlcIdle
    /\ PostIdle
    /\ DeltaIdle

NextTickers ==
    \/ TkValidate
    \/ TkCallListed
    \/ TkAfterListed
    \/ TkAfterUnlisted
    \/ TkPropagate
    \/ TkReturn
    \/ FirstGet
    \/ FirstRetry
    \/ FirstPage
    \/ NextGet
    \/ NextRetry
    \/ AppendPage
    \/ ReturnTable

SpecTickers == InitTickers /\ [][NextTickers]_vars

\* ------------------------------------ DataManager.post_historical_ohlc

\* Wall-clock units in one calendar day: data_manager.py:147 takes the
\* .date() of the datetime set_date returns.
DayLen == 2

\* data_manager.py:135  not os.path.exists(ohlc_path)
PathMissingNever(root) == FALSE

PathMissing(root) == ~root

\* data_manager.py:139  f'{ohlc_path}/{multiplier}_{timeframe}'
FolderPath(m, tf) == <<m.val, tf>>

\* data_manager.py:151  subset=['timestamp', 'ticker']
Key(row) == <<row.timestamp, row.ticker>>

\* data_manager.py:144  data_df.filter(pl.col('timestamp') == timestamp)
FilterTimestamp(df, ts) == SelectSeq(df, LAMBDA row : row.timestamp = ts)

RECURSIVE Pick(_, _, _)
Pick(df, keep, i) ==
    IF i > Len(df) THEN <<>>
    ELSE (IF i \in keep THEN <<df[i]>> ELSE <<>>) \o Pick(df, keep, i + 1)

UniqueKeepFirst(df) ==
    Pick(df, { i \in DOMAIN df : \A j \in 1..(i - 1) : Key(df[j]) # Key(df[i]) }, 1)

\* data_manager.py:151  .unique(subset=['timestamp', 'ticker'], keep='last').
\* The order of the surviving rows is left open by the library; the keys
\* of the result are unique, so no later step depends on it.
Unique(df) ==
    Pick(df, { i \in DOMAIN df : \A j \in (i + 1)..Len(df) : Key(df[j]) # Key(df[i]) }, 1)

\* data_manager.py:147  set_date(timestamp, 'datetime', tz=utc).date()
PartitionDate(ts) == Localize(ts, UTC).wall \div DayLen

\* data_manager.py:148  f'{folder_path}/{date}.parquet'
FilePath(folder, ts) == <<folder, PartitionDate(ts)>>

\* write_parquet(file_path)
WriteParquet(fs, path, df) ==
    [p \in DOMAIN fs \cup {path} |-> IF p = path THEN df ELSE fs[p]]

\* data_manager.py:135-141  the checks before the loop. os.makedirs creates
\* every missing directory on the way to folder_path.
PostBegin ==
    /\ ppc = "start"
    /\ IF PathMissing(root_exists)
         THEN /\ ppc' = "raised" /\ perr' = "ValueError: path does not exist"
              /\ UNCHANGED <<timestamps, root_exists, folders>>
       ELSE IF TimeframeInvalid(post_tf)
         THEN /\ ppc' = "raised" /\ perr' = "ValueError: timeframe"
              /\ UNCHANGED <<timestamps, root_exists, folders>>
       ELSE IF MultiplierInvalid(post_mult)
         THEN /\ ppc' = "raised" /\ perr' = "ValueError: multiplier"
              /\ UNCHANGED <<timestamps, root_exists, folders>>
       ELSE /\ timestamps' = { post_df[k].timestamp : k \in DOMAIN post_df }
            /\ root_exists' = TRUE
            /\ folders' = folders \cup {FolderPath(post_mult, post_tf)}
            /\ ppc' = "loop" /\ perr' = NoErr
    /\ UNCHANGED <<post_df, post_tf, post_mult, files, ncalls, before>>
    /\ UNCHANGED <<pvars, dvars, fvars, evars, ovars, tvars>>

\* data_manager.py:143-154  one iteration of the loop; unique('timestamp')
\* yields the timestamps in no particular order.
PostStep ==
    /\ ppc = "loop"
    /\ \E timestamp \in timestamps :
          LET timestamp_df == FilterTimestamp(post_df, timestamp)
              file_path == FilePath(FolderPath(post_mult, post_tf), timestamp)
          IN  /\ files' =
                    IF timestamp_df = <<>> THEN files
                    ELSE IF file_path \in DOMAIN files
                      THEN WriteParquet(files, file_path,
                                        Unique(files[file_path] \o timestamp_df))
                    ELSE WriteParquet(files, file_path, timestamp_df)
              /\ timestamps' = timestamps \ {timestamp}
    /\ UNCHANGED <<ppc, post_df, post_tf, post_mult, perr, root_exists,
                   folders, ncalls, before>>
    /\ UNCHANGED <<pvars, dvars, fvars, evars, ovars, tvars>>

\* the loop is exhausted and the function returns None
PostReturn ==
    /\ ppc = "loop"
    /\ timestamps = {}
    /\ ppc' = "returned"
    /\ UNCHANGED <<post_df, post_tf, post_mult, timestamps, perr, root_exists,
                   folders, files, ncalls, before>>
    /\ UNCHANGED <<pvars, dvars, fvars, evars, ovars, tvars>>

\* ------------------------------------ the calls of post_historical_ohlc

MaxCalls == 2      \* consecutive calls of post_historical_ohlc
MaxBars == 2       \* rows of a posted table

Bar(ticker, wall, off, c) ==
    [ticker |-> ticker, timestamp |-> [wall |-> wall, aware |-> TRUE, off |-> off],
     c |-> c]

\* the rows tables are built from: two versions of one key, a second ticker
\* at the same timestamp, a second timestamp of the same day, and a
\* timestamp written with a non-UTC offset
Bars ==
    { Bar(SymA, 0, 0, 1), Bar(SymA, 0, 0, 2), Bar(SymG, 0, 0, 1),
      Bar(SymA, 1, 0, 1), Bar(SymA, 2, 1, 1) }

\* tables of up to MaxBars rows, none of them repeated verbatim
Tables ==
    UNION { { t \in [1..n -> Bars] : \A i, j \in 1..n : t[i] = t[j] => i = j }
            : n \in 0..MaxBars }

PostArgs ==
    { [tf |-> "day", mult |-> [isInt |-> TRUE, val |-> 1]],
      [tf |-> "hour", mult |-> [isInt |-> TRUE, val |-> 1]],
      [tf |-> "invalid-timeframe", mult |-> [isInt |-> TRUE, val |-> 1]],
      [tf |-> "day", mult |-> [isInt |-> TRUE, val |-> 0]],
      [tf |-> "day", mult |-> [isInt |-> FALSE, val |-> 1]] }

\* every table with daily bars, and one table with every choice of
\* timeframe and multiplier
PostCalls ==
    { [table |-> t, tf |-> "day", mult |-> [isInt |-> TRUE, val |-> 1]] : t \in Tables }
    \cup { [table |-> <<Bar(SymA, 0, 0, 1), Bar(SymA, 2, 1, 1)>>, tf |-> a.tf, mult |-> a.mult]
            : a \in PostArgs }

\* the caller posts another table to the same target
PostCall ==
    /\ ppc \in {"idle", "returned", "raised"}
    /\ ncalls < MaxCalls
    /\ \E c \in PostCalls :
          /\ post_df' = c.table
          /\ post_tf' = c.tf
          /\ post_mult' = c.mult
    /\ before' = [table |-> post_df, tf |-> post_tf, mult |-> post_mult,
                  outcome |-> ppc, root |-> root_exists, folders |-> folders,
                  files |-> files]
    /\ ncalls' = ncalls + 1
    /\ ppc' = "start" /\ perr' = NoErr /\ timestamps' = {}
    /\ UNCHANGED <<root_exists, folders, files>>
    /\ UNCHANGED <<pvars, dvars, fvars, evars, ovars, tvars>>

InitPost ==
    /\ npages = 1 /\ nrows = 0 /\ hasCount = FALSE
    /\ fpc = "idle" /\ safe = FALSE /\ session = NoSession
    /\ request_url = <<DirectSym, 0>> /\ request_json = NoJson
    /\ results_df = <<>> /\ ferr = NoErr
    /\ reqlog = <<>> /\ warnings = <<>> /\ nsessions = 0 /\ clock = 0
    /\ OhlcIdle
    /\ TickersIdle
    /\ ppc = "idle"
    /\ post_df = <<>> /\ post_tf = "" /\ post_mult = [isInt |-> TRUE, val |-> 0]
    /\ timestamps = {} /\ perr = NoErr
    /\ root_exists \in BOOLEAN /\ folders = {} /\ files = <<>>
    /\ ncalls = 0 /\ before = NoCall
    /\ DeltaIdle

NextPost ==
    \/ PostCall
    \/ PostBegin
    \/ PostStep
    \/ PostReturn

SpecPost == InitPost /\ [][NextPost]_vars

\* ----------------------------------- claims on post_historical_ohlc

SameKey(a, b) == a.timestamp = b.timestamp /\ a.ticker = b.ticker

\* the current call returned and repeats the table and arguments of the
\* call before it, which returned too
PostedTwice ==
    /\ ppc = "returned" /\ before.outcome = "returned"
    /\ before.table = post_df /\ before.tf = post_tf /\ before.mult = post_mult

\* C11: posting the same table a second time leaves every partition file
\* with the set of rows the first call left in it, for every table,
\* tables with several rows of one (timestamp, ticker) included.
C11_Idempotent ==
    PostedTwice =>
        /\ DOMAIN files = DOMAIN before.files
        /\ \A p \in DOMAIN files : Range(files[p]) = Range(before.files[p])

\* the current call posted B after a call that posted A to the same
\* target, timeframe and multiplier, and some key of both has two versions
MergedVersions ==
    /\ ppc = "returned" /\ before.outcome = "returned"
    /\ before.tf = post_tf /\ before.mult = post_mult
    /\ \E a \in Range(before.table), b \in Range(post_df) : SameKey(a, b) /\ a # b

\* C12: merge law. After A then B were posted to the same target,
\* timeframe and multiplier, every key that A and B hold with different
\* field values has exactly one row in the partition files of that
\* timeframe and multiplier, and it is B's (last) row for the key.
C12_MergeLaw ==
    (/\ ppc = "returned" /\ before.outcome = "returned"
     /\ before.tf = post_tf /\ before.mult = post_mult) =>
        \A a \in Range(before.table), i \in DOMAIN post_df :
            (/\ SameKey(a, post_df[i]) /\ a # post_df[i]
             /\ \A j \in DOMAIN post_df : SameKey(a, post_df[j]) => j <= i) =>
                LET folder == { q \in DOMAIN files : q[1] = <<post_mult.val, post_tf>> }
                    stored == UNION { { <<p, k>> : k \in { n \in DOMAIN files[p] :
                                                              SameKey(files[p][n], a) } }
                                      : p \in folder }
                IN  /\ Cardinality(stored) = 1
                    /\ \A s \in stored : files[s[1]][s[2]] = post_df[i]

C12_Witness ==
    /\ MergedVersions
    /\ \A i, j \in DOMAIN before.table : SameKey(before.table[i], before.table[j]) => i = j
    /\ \A i, j \in DOMAIN post_df : SameKey(post_df[i], post_df[j]) => i = j

\* C13: once a call has returned, no partition file holds two rows with
\* the same (timestamp, ticker), whatever tables were posted to the
\* initially empty target.
C13_UniqueKeys ==
    ppc = "returned" =>
        \A p \in DOMAIN files : \A i, j \in DOMAIN files[p] :
            SameKey(files[p][i], files[p][j]) => i = j

\* C14: a call whose target directory does not exist raises the path
\* error and leaves the filesystem as it found it: no root directory, no
\* sub-directory, no partition file is created.
C14_MissingTargetFails ==
    (ncalls >= 1 /\ ~before.root) =>
        /\ ppc \in {"start", "raised"}
        /\ ppc = "raised" => perr = "ValueError: path does not exist"
        /\ ~root_exists
        /\ folders = before.folders
        /\ files = before.files

C14_Witness ==
    /\ ppc = "raised" /\ ~before.root
    /\ post_df # <<>>
    /\ ~TimeframeInvalid(post_tf) /\ ~MultiplierInvalid(post_mult)

\* -------------------------------- claims on get_historical_tickers

IsTypeError(err) ==
    err \in {"TypeError: lst", "TypeError: date", "TypeError: include_delisted"}

\* the ticker types the caller asked for, when ticker_types is a string or
\* a list of strings
RequestedTypes == IF arg_types.kind = "str" THEN <<arg_types.val>> ELSE arg_types.val

\* C15 as stated: include_delisted is not a boolean: the call fails
\* with a type error and issues no HTTP request, whatever ticker_types and
\* date are.
C15_Original_TypeError ==
    (tpc # "start" /\ ~include_delisted.isBool) =>
        /\ tpc = "raised"
        /\ IsTypeError(terr)
        /\ reqlog = <<>>

\* C15, amended: include_delisted is not a boolean: the call fails
\* having issued no HTTP request, whatever ticker_types and date are; the
\* error is a type error, unless ticker_types is valid and date is a string
\* that is no ISO date, whose ValueError comes first.
C15_FailsBeforeRequests ==
    (tpc # "start" /\ ~include_delisted.isBool) =>
        /\ tpc = "raised"
        /\ reqlog = <<>>
        /\ IF arg_types.kind \in {"str", "list"} /\ arg_date = "bad"
             THEN terr = "ValueError: date"
             ELSE IsTypeError(terr)

C15_Witness ==
    /\ tpc = "raised"
    /\ ~include_delisted.isBool /\ include_delisted.val
    /\ arg_types.kind = "list" /\ arg_date = "iso"
    /\ terr = "TypeError: include_delisted"

RECURSIVE ExpectedFetches(_, _)
ExpectedFetches(types, both) ==
    IF types = <<>> THEN <<>>
    ELSE (IF both THEN << <<Head(types), "true">>, <<Head(types), "false">> >>
                  ELSE << <<Head(types), "true">> >>)
         \o ExpectedFetches(Tail(types), both)

RECURSIVE Concatenation(_)
Concatenation(fs) ==
    IF fs = <<>> THEN <<>> ELSE Head(fs).df \o Concatenation(Tail(fs))

\* the first requests of the fetches: those for a first page, sent through
\* a session
FetchesIssued ==
    { k \in DOMAIN reqlog : reqlog[k].url[2] = 1 /\ reqlog[k].via # 0 }

\* C16: the fetches are issued per requested type in input order, active
\* first and, only if include_delisted is true, inactive second; the table
\* is the concatenation of their results in that order; a call that
\* returns made |types| fetches, or 2 * |types| with include_delisted.
C16_FetchOrder ==
    (tpc \in {"loop", "listed", "unlisted", "returned"}) =>
        LET expected == ExpectedFetches(RequestedTypes, include_delisted.val)
        IN  /\ Len(fetched) <= Len(expected)
            /\ \A k \in DOMAIN fetched :
                  /\ fetched[k].url[2] = expected[k][1]
                  /\ fetched[k].url[4] = expected[k][2]
            /\ tk_df = Concatenation(fetched)
            /\ Cardinality(FetchesIssued) <= Len(expected)
            /\ \A k \in FetchesIssued :
                  LET n == Cardinality({ j \in FetchesIssued : j <= k })
                  IN  /\ reqlog[k].url[1][2] = expected[n][1]
                      /\ reqlog[k].url[1][4] = expected[n][2]
            /\ tpc = "returned" =>
                  /\ Len(fetched) = Len(expected)
                  /\ Cardinality(FetchesIssued) =
                        (IF include_delisted.val THEN 2 ELSE 1) * Len(RequestedTypes)

C16_Witness ==
    /\ tpc = "returned"
    /\ Len(RequestedTypes) = 2
    /\ include_delisted.val
    /\ Len(fetched) = 4
    /\ nrows >= 1 /\ npages >= 2
    /\ Len(tk_df) = 4 * npages * nrows

\* C17: with valid arguments and a provider that honours the filters of a
\* request, every row of the returned table has one of the requested
\* types; with include_delisted false every row is active and no request
\* with active=false is ever issued.
C17_RowsMatchRequest ==
    /\ tpc = "returned" =>
          \A k \in DOMAIN tk_df :
              /\ \E i \in DOMAIN RequestedTypes : tk_df[k].type = RequestedTypes[i]
              /\ ~include_delisted.val => tk_df[k].active = "true"
    /\ (include_delisted.isBool /\ ~include_delisted.val) =>
          \A k \in DOMAIN reqlog : reqlog[k].url[1][4] # "false"

C17_Witness ==
    /\ tpc = "returned"
    /\ include_delisted.isBool /\ ~include_delisted.val
    /\ Len(RequestedTypes) = 2
    /\ Len(tk_df) >= 2
    /\ \A k \in DOMAIN tk_df : tk_df[k].active = "true"

\* C19: with ticker_types left out and the other arguments valid, the
\* call does not fail on its arguments: it goes on to ask the provider.
C19_DefaultDiscoversTypes ==
    (/\ arg_types.kind = "none" /\ tpc # "start"
     /\ include_delisted.isBool /\ arg_date \in {"empty", "iso"}) =>
        ~(tpc = "raised" /\ reqlog = <<>>)

\* ------------------------------------ claims on sessions and strict mode

\* C18: in a get_historical_ohlc call for several symbols whose provider
\* signals no error, every HTTP request goes through one and the same
\* session, and no second session is created.
C18_OneSharedSession ==
    (Len(tickers) >= 2 /\ NoFault) =>
        /\ \A j, k \in DOMAIN reqlog : reqlog[j].via = reqlog[k].via
        /\ nsessions <= 1

\* C20: a get_paginated_request call with safe=True that returns has seen
\* no response with a status other than 200, on the first page, on a
\* continuation page or on a retry, and its table holds the rows of every
\* page of the chain.
C20_StrictAllOrNothing ==
    (safe /\ fpc = "returned" /\ nrows >= 1) =>
        /\ \A k \in DOMAIN reqlog : reqlog[k].class \notin {"http", "http_json"}
        /\ results_df = AllRows(DirectSym, npages)

\* --------------------------------- claims on retries and filled rows

\* C21: when the provider only ever answers 200 and the retry after a
\* soft error is a soft error again, with or without a results field, on
\* the first page or on a continuation page, the call does not fail.
C21_DegradedSuccess ==
    (/\ \A k \in DOMAIN reqlog : reqlog[k].class \in {"ok", "soft"}
     /\ \E k \in DOMAIN reqlog : reqlog[k].via = 0 /\ reqlog[k].class = "soft") =>
        fpc # "raised"

\* C22: every HTTP request of a get_paginated_request call, the retry
\* after a soft error included, is sent through the session with the
\* retrying adapter; none is sent outside it.
C22_AllThroughSession ==
    \A k \in DOMAIN reqlog : reqlog[k].via # 0 /\ reqlog[k].via = session

\* C23: every row of the table get_historical_ohlc returns has an OTC
\* flag that is not null (false where the provider left it out), the
\* symbol whose request produced it as ticker, and a display timestamp
\* computed from its own t alone.
C23_RowsFilled ==
    opc = "returned" =>
        \A k \in DOMAIN data_df :
            LET row == data_df[k] IN
            /\ row.otc = (IF row.id[3] = 2 THEN "true" ELSE "false")
            /\ row.ticker = row.id[1]
            /\ \E i \in DOMAIN tickers : tickers[i] = row.ticker
            /\ row.timestamp = [wall |-> row.t \div 1000, aware |-> TRUE, off |-> 0]

C23_Witness ==
    /\ opc = "returned"
    /\ Len(tickers) >= 2
    /\ \E j, k \in DOMAIN data_df :
          /\ data_df[j].ticker # data_df[k].ticker
          /\ data_df[j].otc = "true" /\ data_df[k].otc = "false"
          /\ data_df[j].t # data_df[k].t

\* ------------------------------- claims on the partition files

\* the UTC calendar date of the instant a timestamp denotes
UtcDate(ts) == (ts.wall - ts.off) \div DayLen

\* C24: after a call returned, every row of the posted table has its key
\* in the file of the call's multiplier and timeframe named by the UTC
\* calendar date of the row's instant, whatever offset the timestamp is
\* written with, and no file holds a row of another UTC date than its name.
C24_PartitionPlacement ==
    ppc = "returned" =>
        /\ \A i \in DOMAIN post_df :
              LET path == << <<post_mult.val, post_tf>>, UtcDate(post_df[i].timestamp) >>
              IN  /\ path \in DOMAIN files
                  /\ \E k \in DOMAIN files[path] : SameKey(files[path][k], post_df[i])
        /\ \A p \in DOMAIN files : \A k \in DOMAIN files[p] :
              UtcDate(files[p][k].timestamp) = p[2]

\* C25: frame of a merge. After a call returned, every file that existed
\* before it and whose date matches no row of the posted table is as it
\* was, and every row that was in a file before the call and whose key
\* does not occur in the posted table is still in that file.
C25_MergeFrame ==
    ppc = "returned" =>
        \A p \in DOMAIN before.files :
            /\ p \in DOMAIN files
            /\ (\A i \in DOMAIN post_df :
                    p # << <<post_mult.val, post_tf>>, UtcDate(post_df[i].timestamp) >>)
                 => files[p] = before.files[p]
            /\ \A k \in DOMAIN before.files[p] :
                  (\A i \in DOMAIN post_df : ~SameKey(post_df[i], before.files[p][k]))
                     => \E n \in DOMAIN files[p] : files[p][n] = before.files[p][k]

\* C26: a call on an existing target directory with a timeframe outside
\* the valid ones, or a multiplier that is not an integer >= 1, raises and
\* leaves the sub-directories and the partition files as they were.
C26_InvalidArgsTouchNothing ==
    (/\ ncalls >= 1 /\ before.root /\ ppc # "start"
     /\ \/ post_tf \notin {"second", "minute", "hour", "day", "week", "month",
                            "quarter", "year"}
        \/ ~(post_mult.isInt /\ post_mult.val >= 1)) =>
        /\ ppc = "raised"
        /\ perr \in {"ValueError: timeframe", "ValueError: multiplier"}
        /\ folders = before.folders
        /\ files = before.files

C26_Witness ==
    /\ ppc = "raised" /\ before.root
    /\ post_tf = "day" /\ post_mult.isInt /\ post_mult.val = 0
    /\ post_df # <<>>
    /\ before.outcome = "returned" /\ before.files # <<>>
    /\ files = before.files

\* ------------------------------------------- Helper.get_time_delta

\* helper.py:122, 125  fromisoformat raises ValueError for a string that is
\* no ISO timestamp
IsoInvalid(t) == t < 0

\* helper.py:126-130  the delta is counted; a dict keeps its keys in the
\* order they were inserted
CountDelta(deltas, d) ==
    IF \E k \in DOMAIN deltas : deltas[k].delta = d
      THEN [k \in DOMAIN deltas |->
               IF deltas[k].delta = d THEN [deltas[k] EXCEPT !.count = @ + 1]
               ELSE deltas[k]]
    ELSE Append(deltas, [delta |-> d, count |-> 1])

\* helper.py:133-139  the first delta whose count exceeds every count
\* before it and is not exceeded after it
MostCommon(deltas) ==
    LET best == CHOOSE k \in DOMAIN deltas :
                    /\ \A j \in DOMAIN deltas : deltas[j].count <= deltas[k].count
                    /\ \A j \in 1..(k - 1) : deltas[j].count < deltas[k].count
    IN  <<deltas[best].delta>>

\* helper.py:119-123  set_str_list, the length check, the first timestamp
DeltaValidate ==
    /\ dpc = "start"
    /\ IF StrListInvalid(arg_timestamps)
         THEN /\ dpc' = "raised" /\ derr' = "TypeError: lst"
              /\ UNCHANGED <<stamps, sidx, prev_timestamp>>
       ELSE IF Len(SetStrList(arg_timestamps)) < 2
         THEN /\ dpc' = "raised" /\ derr' = "ValueError: at least 2 timestamps"
              /\ stamps' = SetStrList(arg_timestamps)
              /\ UNCHANGED <<sidx, prev_timestamp>>
       ELSE IF IsoInvalid(SetStrList(arg_timestamps)[1])
         THEN /\ dpc' = "raised" /\ derr' = "ValueError: isoformat"
              /\ stamps' = SetStrList(arg_timestamps)
              /\ UNCHANGED <<sidx, prev_timestamp>>
       ELSE /\ stamps' = SetStrList(arg_timestamps)
            /\ prev_timestamp' = SetStrList(arg_timestamps)[1]
            /\ sidx' = 1
            /\ dpc' = "loop"
            /\ UNCHANGED derr
    /\ UNCHANGED <<arg_timestamps, time_deltas, most_common_delta>>
    /\ UNCHANGED <<pvars, fvars, evars, ovars, tvars, svars>>

\* helper.py:124-131  one iteration of the loop over all the timestamps,
\* the first included
DeltaStep ==
    /\ dpc = "loop"
    /\ sidx <= Len(stamps)
    /\ IF IsoInvalid(stamps[sidx])
         THEN /\ dpc' = "raised" /\ derr' = "ValueError: isoformat"
              /\ UNCHANGED <<sidx, prev_timestamp, time_deltas>>
         ELSE /\ time_deltas' = CountDelta(time_deltas, stamps[sidx] - prev_timestamp)
              /\ prev_timestamp' = stamps[sidx]
              /\ sidx' = sidx + 1
              /\ UNCHANGED <<dpc, derr>>
    /\ UNCHANGED <<arg_timestamps, stamps, most_common_delta>>
    /\ UNCHANGED <<pvars, fvars, evars, ovars, tvars, svars>>

\* helper.py:133-139  the most common delta is picked and returned
DeltaReturn ==
    /\ dpc = "loop"
    /\ sidx > Len(stamps)
    /\ most_common_delta' = MostCommon(time_deltas)
    /\ dpc' = "returned"
    /\ UNCHANGED <<arg_timestamps, stamps, sidx, prev_timestamp, time_deltas, derr>>
    /\ UNCHANGED <<pvars, fvars, evars, ovars, tvars, svars>>

\* --------------------------------------- the calls of get_time_delta

MaxStamp == 3      \* latest timestamp of a list: 0..MaxStamp
MaxStamps == 4     \* timestamps in a list

\* a timestamp is the instant it denotes; -1 is a string that is none
StampLists == UNION { [1..n -> -1..MaxStamp] : n \in 0..MaxStamps }

\* timestamps: a list of strings, one string, None
StampArgs ==
    { [kind |-> "list", val |-> l] : l \in StampLists }
    \cup { [kind |-> "str", val |-> 0], [kind |-> "none", val |-> <<>>] }

InitDelta ==
    /\ npages = 1 /\ nrows = 0 /\ hasCount = FALSE
    /\ fpc = "idle" /\ safe = FALSE /\ session = NoSession
    /\ request_url = <<DirectSym, 0>> /\ request_json = NoJson
    /\ results_df = <<>> /\ ferr = NoErr
    /\ reqlog = <<>> /\ warnings = <<>> /\ nsessions = 0 /\ clock = 0
    /\ OhlcIdle
    /\ TickersIdle
    /\ PostIdle
    /\ arg_timestamps \in StampArgs
    /\ dpc = "start"
    /\ stamps = <<>> /\ sidx = 0 /\ prev_timestamp = 0
    /\ time_deltas = <<>> /\ most_common_delta = NoDelta /\ derr = NoErr

NextDelta ==
    \/ DeltaValidate
    \/ DeltaStep
    \/ DeltaReturn

SpecDelta == InitDelta /\ [][NextDelta]_vars

\* ----------------------------------------- claims on get_time_delta

\* C27: for a list of at least 2 timestamps the call returns the most
\* common difference between consecutive timestamps: a value found among
\* the len-1 consecutive differences, none of which is more frequent, and
\* positive when the timestamps strictly increase; for a list of fewer
\* than 2 timestamps the call raises.
C27_MostCommonDelta ==
    (/\ dpc \in {"returned", "raised"}
     /\ arg_timestamps.kind = "list"
     /\ \A k \in DOMAIN arg_timestamps.val : arg_timestamps.val[k] >= 0) =>
        LET ts == arg_timestamps.val
            diffs == [k \in 1..(Len(ts) - 1) |-> ts[k + 1] - ts[k]]
            count(d) == Cardinality({ k \in DOMAIN diffs : diffs[k] = d })
        IN  IF Len(ts) < 2 THEN dpc = "raised"
            ELSE /\ dpc = "returned"
                 /\ Len(most_common_delta) = 1
                 /\ \E k \in DOMAIN diffs : diffs[k] = most_common_delta[1]
                 /\ \A k \in DOMAIN diffs : count(diffs[k]) <= count(most_common_delta[1])
                 /\ (\A k \in DOMAIN diffs : diffs[k] > 0) => most_common_delta[1] > 0

====
